---------------------------- MODULE Spec2Model ----------------------------
(***************************************************************************)
(* PID regulator (pid_controller.py) and the window that drives it         *)
(* (window.py).                                                            *)
(*                                                                         *)
(* Python floats are modelled as exact rationals <<n, d>> with d > 0 and   *)
(* gcd(n, d) = 1.  The operators below are the arithmetic the code uses.   *)
(***************************************************************************)
EXTENDS Integers, Sequences, FiniteSets

\* ------------------------------------------------------------- rationals

Abs(x) == IF x < 0 THEN -x ELSE x

RECURSIVE Gcd(_, _)
Gcd(a, b) == IF b = 0 THEN a ELSE Gcd(b, a % b)

\* the rational n/d (d # 0) in lowest terms with a positive denominator
Q(n, d) ==
    LET g == Gcd(Abs(n), Abs(d))
        s == IF d < 0 THEN -1 ELSE 1
    IN  << (s * n) \div g, (s * d) \div g >>

R(i) == << i, 1 >>

\* sums and products cancel common factors first, to keep the terms small
RAdd(a, b) ==
    LET g == Gcd(a[2], b[2])
    IN  Q(a[1] * (b[2] \div g) + b[1] * (a[2] \div g), (a[2] \div g) * b[2])
RMul(a, b) ==
    LET g1 == Gcd(Abs(a[1]), b[2])
        g2 == Gcd(Abs(b[1]), a[2])
    IN  Q((a[1] \div g1) * (b[1] \div g2), (a[2] \div g2) * (b[2] \div g1))
\* a / b, defined for b # 0 only (the callers raise ZeroDivisionError first)
RDiv(a, b) ==
    RMul(a, IF b[1] < 0 THEN << -b[2], -b[1] >> ELSE << b[2], b[1] >>)
RNeg(a)    == << -a[1], a[2] >>
RSub(a, b) == RAdd(a, RNeg(b))
RAbs(a)    == << Abs(a[1]), a[2] >>
RLt(a, b)  == RSub(a, b)[1] < 0
RLe(a, b)  == RSub(a, b)[1] <= 0
RGt(a, b)  == RLt(b, a)
RGe(a, b)  == RLe(b, a)
RIsZero(a) == a[1] = 0
RMax(a, b) == IF RLt(a, b) THEN b ELSE a
RMin(a, b) == IF RLt(b, a) THEN b ELSE a
\* Python int(x): truncation toward zero
RInt(a)    == IF a[1] >= 0 THEN a[1] \div a[2] ELSE -((-a[1]) \div a[2])

\* Python None, and an attribute that was never assigned
None      == << >>
Undefined == << 0 >>

\* ---------------------------------------------------------- PIDController

\* PIDController.__init__: the fields after construction.  _last_derivative
\* is not assigned by __init__.
PIDInit(kp, ki, kd, setpoint, output_limits, sample_time, omega_n, damping_ratio, derivative_filter) ==
    [ kp |-> kp, ki |-> ki, kd |-> kd, setpoint |-> setpoint,
      output_limits |-> output_limits, sample_time |-> sample_time,
      omega_n |-> omega_n, damping_ratio |-> damping_ratio,
      derivative_filter |-> derivative_filter,
      integral |-> R(0), last_output |-> R(0), last_input |-> None,
      last_derivative |-> Undefined ]

\* a reset that forgets to clear _last_input
PIDResetKeepsInput(p) ==
    [ p EXCEPT !.integral = R(0), !.last_output = R(0) ]

\* PIDController.reset
PIDReset(p) ==
    [ p EXCEPT !.integral = R(0), !.last_output = R(0), !.last_input = None ]

\* a clamp without its if branch
ClampNoUpper(x, min_output, max_output) ==
    IF RLt(x, min_output) THEN min_output ELSE x

\* a clamp without its elif branch
ClampNoLower(x, min_output, max_output) ==
    IF RGt(x, max_output) THEN max_output ELSE x

\* lines 78-81 and 101-104: the if/elif clamp
Clamp(x, min_output, max_output) ==
    IF RGt(x, max_output) THEN max_output
    ELSE IF RLt(x, min_output) THEN min_output
    ELSE x

\* an accumulation without anti-windup
IntegralStepNoClamp(p, current_value, round) ==
    RAdd(RAdd(p.integral,
              RMul(RMul(p.ki, RSub(p.setpoint, current_value)), p.sample_time)),
         round)

\* lines 71-81: the accumulation of line 74 and the anti-windup clamp.  round
\* is the rounding error of the floating-point += (0: exact arithmetic).
IntegralStep(p, current_value, round) ==
    LET error == RSub(p.setpoint, current_value)
        acc   == RAdd(RAdd(p.integral,
                           RMul(RMul(p.ki, error), p.sample_time)), round)
    IN  Clamp(acc, p.output_limits[1], p.output_limits[2])

\* lines 90-91 outside the else branch: the filter applied on the first call
\* too, reading the derivative stored before the reset
DerivativeFilterFirst(p, current_value) ==
    LET raw  == IF p.last_input = None THEN R(0)
                ELSE RNeg(RDiv(RSub(current_value, p.last_input),
                               p.sample_time))
        last == IF p.last_derivative = Undefined THEN R(0)
                ELSE p.last_derivative
    IN  IF RGt(p.derivative_filter, R(0))
        THEN RAdd(RMul(p.derivative_filter, raw),
                  RMul(RSub(R(1), p.derivative_filter), last))
        ELSE raw

\* lines 84-91: the derivative on the measurement, filtered when asked.
\* Evaluated only when no exception is raised.
Derivative(p, current_value) ==
    IF p.last_input = None THEN R(0)
    ELSE LET raw == RNeg(RDiv(RSub(current_value, p.last_input), p.sample_time))
         IN  IF RGt(p.derivative_filter, R(0))
             THEN RAdd(RMul(p.derivative_filter, raw),
                       RMul(RSub(R(1), p.derivative_filter), p.last_derivative))
             ELSE raw

\* the exception update raises, "" when it returns
UpdateRaises(p) ==
    IF p.last_input = None THEN ""
    ELSE IF RIsZero(p.sample_time) THEN "ZeroDivisionError"
    ELSE IF RGt(p.derivative_filter, R(0)) /\ p.last_derivative = Undefined
         THEN "AttributeError"
    ELSE ""

\* PIDController.update: the regulator after the call, the value returned,
\* the derivative term and the exception raised.  An exception leaves the
\* integral already accumulated (line 74 runs before line 87).
PIDUpdate(p, current_value, round) ==
    LET integral == IntegralStep(p, current_value, round)
        raised   == UpdateRaises(p)
    IN  IF raised # ""
        THEN [ pid |-> [ p EXCEPT !.integral = integral ],
               output |-> None, derivative_term |-> None, raised |-> raised ]
        ELSE
        LET error           == RSub(p.setpoint, current_value)
            proportional    == RMul(p.kp, error)
            derivative      == Derivative(p, current_value)
            derivative_term == RMul(p.kd, derivative)
            output          == Clamp(RAdd(RAdd(proportional, integral),
                                          derivative_term),
                                     p.output_limits[1], p.output_limits[2])
        IN  [ pid |-> [ p EXCEPT !.integral = integral,
                                 !.last_derivative = derivative,
                                 !.last_input = current_value,
                                 !.last_output = output ],
              output |-> output, derivative_term |-> derivative_term,
              raised |-> "" ]

\* ------------------------------------------------------ PIDController.simulate

\* lines 155-159: the second-order process; <<current_value, velocity>> after
SecondOrderStep(p, output, current_value, velocity) ==
    LET acceleration ==
            RSub(RMul(RMul(p.omega_n, p.omega_n), RSub(output, current_value)),
                 RMul(RMul(RMul(R(2), p.damping_ratio), p.omega_n), velocity))
        v == RAdd(velocity, RMul(acceleration, p.sample_time))
    IN  << RAdd(current_value, RMul(v, p.sample_time)), v >>

\* lines 162-163: the first-order process, tau = 1 / omega_n (omega_n # 0)
FirstOrderStep(p, output, current_value, velocity) ==
    LET tau == RDiv(R(1), p.omega_n)
    IN  << RAdd(current_value,
                RMul(RDiv(RSub(output, current_value), tau), p.sample_time)),
           velocity >>

\* lines 153-165: the exception the model dispatch raises, "" when none
ModelRaises(p, model_type) ==
    IF model_type = "second_order" THEN ""
    ELSE IF model_type = "first_order"
         THEN IF RIsZero(p.omega_n) THEN "ZeroDivisionError" ELSE ""
    ELSE "ValueError"

\* line 171: max(0, min(current_value, max(self.output_limits)))
PhysicalClamp(p, current_value) ==
    RMax(R(0), RMin(current_value,
                    RMax(p.output_limits[1], p.output_limits[2])))

\* lines 146-174 of one iteration, after update returned u: the process
\* advanced, clamped and recorded.  s is the loop's state: the regulator, the
\* locals current_value and velocity, and the two lists.  raw_values keeps
\* current_value as line 168 leaves it, before the clamp of line 171.
ProcessStep(s, step, a, u) ==
    IF ModelRaises(u.pid, a.model_type) # ""
    THEN [ s EXCEPT !.pid = u.pid, !.updates = step + 1,
                    !.raised = ModelRaises(u.pid, a.model_type) ]
    ELSE
    LET current_time == RMul(R(step), u.pid.sample_time)
        disturbance_value ==
            IF RGe(current_time, RDiv(a.simulation_time, R(2)))
            THEN a.disturbance ELSE R(0)
        moved == IF a.model_type = "second_order"
                 THEN SecondOrderStep(u.pid, u.output, s.current_value, s.velocity)
                 ELSE FirstOrderStep(u.pid, u.output, s.current_value, s.velocity)
        raw   == RAdd(moved[1], RMul(disturbance_value, u.pid.sample_time))
        cv    == PhysicalClamp(u.pid, raw)
    IN  [ pid |-> u.pid, current_value |-> cv, velocity |-> moved[2],
          time_steps |-> Append(s.time_steps, current_time),
          output_values |-> Append(s.output_values, cv),
          raw_values |-> Append(s.raw_values, raw),
          raised |-> "", updates |-> step + 1 ]

\* lines 139-174: iteration step of the loop.  a.noise[step + 1] is the sample
\* np.random.normal returns in it; updates counts the calls of update made so
\* far, one that raised included.
SimIteration(s, step, a) ==
    CHOOSE n \in
        { IF u.raised # ""
          THEN [ s EXCEPT !.pid = u.pid, !.raised = u.raised,
                          !.updates = step + 1 ]
          ELSE ProcessStep(s, step, a, u) :
          u \in { PIDUpdate(s.pid, RAdd(s.current_value, a.noise[step + 1]),
                            R(0)) } } : TRUE

\* line 138: for step in range(num_steps), left by an exception
RECURSIVE SimLoop(_, _, _, _)
SimLoop(s, step, num_steps, a) ==
    IF step >= num_steps \/ s.raised # "" THEN s
    ELSE CHOOSE r \in { SimLoop(n, step + 1, num_steps, a) :
                        n \in { SimIteration(s, step, a) } } : TRUE

\* line 132: int(simulation_time / sample_time), sample_time # 0
NumSteps(p, simulation_time) == RInt(RDiv(simulation_time, p.sample_time))

\* PIDController.simulate with arguments a = [simulation_time, initial_value,
\* initial_velocity, disturbance, noise, model_type]: the regulator after the
\* call, the two lists returned (time_steps, output_values) and the exception
\* raised
PIDSimulate(p, a) ==
    LET s0 == [ pid |-> p, current_value |-> a.initial_value,
                velocity |-> a.initial_velocity, time_steps |-> << >>,
                output_values |-> << >>, raw_values |-> << >>,
                raised |-> "", updates |-> 0 ]
    IN  IF RIsZero(p.sample_time)
        THEN [ s0 EXCEPT !.raised = "ZeroDivisionError" ]
        ELSE SimLoop(s0, 0, NumSteps(p, a.simulation_time), a)

\* ------------------------------------------- DarkModeWindow.update_metrics

\* line 642 with ">" for ">="
ReachedStrictly(val, setpoint) == RGt(val, RMul(Q(9, 10), setpoint))

\* line 642: val >= 0.9 * setpoint
Reached(val, setpoint) == RGe(val, RMul(Q(9, 10), setpoint))

\* line 651: abs(val - setpoint) <= 0.02 * setpoint
InBand(val, setpoint) ==
    RLe(RAbs(RSub(val, setpoint)), RMul(Q(1, 50), setpoint))

\* line 651 testing output[i] alone rather than all of output[i:]
SettledFromOnlyFirst(output, i, setpoint) == InBand(output[i], setpoint)

\* line 651: all(... for val in output[i:]), i counted from 1
SettledFrom(output, i, setpoint) ==
    \A j \in i .. Len(output) : InBand(output[j], setpoint)

\* line 642: next(i for i, val in enumerate(output) if ...), from index i on;
\* 0 stands for StopIteration
RECURSIVE RiseIndex(_, _, _)
RiseIndex(output, i, setpoint) ==
    IF i > Len(output) THEN 0
    ELSE IF Reached(output[i], setpoint) THEN i
    ELSE RiseIndex(output, i + 1, setpoint)

\* lines 649-652: next(i for i in range(len(output)) if all(...)), from i on
RECURSIVE SettlingIndex(_, _, _)
SettlingIndex(output, i, setpoint) ==
    IF i > Len(output) THEN 0
    ELSE IF SettledFrom(output, i, setpoint) THEN i
    ELSE SettlingIndex(output, i + 1, setpoint)

\* line 658: max(output), output not empty
RECURSIVE MaxOf(_, _)
MaxOf(output, i) ==
    IF i = Len(output) THEN output[i]
    ELSE RMax(output[i], MaxOf(output, i + 1))

NoMetrics == [ rise_time |-> None, settling_time |-> None,
               overshoot |-> None, steady_state_error |-> None ]

\* update_metrics(time, output): the four values it computes (None: the
\* label reads N/A)
Metrics(time, output, setpoint) ==
    IF output = << >> THEN NoMetrics
    ELSE
    LET ri == RiseIndex(output, 1, setpoint)
        si == SettlingIndex(output, 1, setpoint)
    IN  [ rise_time          |-> IF ri = 0 THEN None ELSE time[ri],
          settling_time      |-> IF si = 0 THEN None ELSE time[si],
          overshoot          |-> RSub(MaxOf(output, 1), setpoint),
          steady_state_error |-> RAbs(RSub(setpoint, output[Len(output)])) ]

\* ------------------------------------------------------------------ state

VARIABLES
    pid_controller,       \* the PIDController instance (its fields)
    last_call,            \* the last call on it: operation, result, exception
    updates_since_reset,  \* update calls since construction or the last reset
    sim_log,              \* the simulate calls made: arguments and results
    calls,                \* update calls made so far (bounds the run)
    round_err,            \* accumulated rounding error of _integral, in Ulp
    window                \* the DarkModeWindow instance (its fields)

vars == << pid_controller, last_call, updates_since_reset, sim_log, calls,
           round_err, window >>

NoCall == [ op |-> "none", raised |-> "", output |-> None,
            derivative_term |-> None, first |-> FALSE, updates |-> 0 ]

\* no window: the regulator is used as a library
NoWindow == [ is_running |-> FALSE ]

\* ----------------------------------------------------- regulator as a library

MaxCalls == 3

\* constructor arguments a caller can pass; __init__ checks none of them
Gains        == { << R(1), R(0), R(0) >>, << R(1), Q(1, 2), R(1) >>,
                  << R(0), Q(1, 4), Q(1, 2) >> }
Limits       == { << R(0), R(400) >>, << R(10), R(50) >>, << R(50), R(10) >> }
SampleTimes  == { R(1), Q(1, 2), R(0), R(-1) }
Filters      == { R(0), Q(1, 2) }
Measurements == { R(0), R(60), R(250) }

Init ==
    /\ \E g \in Gains, lim \in Limits, st \in SampleTimes, f \in Filters :
          pid_controller =
              PIDInit(g[1], g[2], g[3], R(100), lim, st, R(1), Q(7, 10), f)
    /\ last_call = NoCall
    /\ updates_since_reset = 0
    /\ sim_log = << >>
    /\ calls = 0
    /\ round_err = 0
    /\ window = NoWindow

\* a caller calls update(current_value)
Update(current_value) ==
    /\ calls < MaxCalls
    /\ \E u \in { PIDUpdate(pid_controller, current_value, R(0)) } :
           /\ pid_controller' = u.pid
           /\ last_call' = [ op |-> "update", raised |-> u.raised,
                             output |-> u.output,
                             derivative_term |-> u.derivative_term,
                             first |-> (updates_since_reset = 0),
                             updates |-> 1 ]
    /\ updates_since_reset' = updates_since_reset + 1
    /\ calls' = calls + 1
    /\ UNCHANGED << sim_log, round_err, window >>

\* a caller calls reset()
Reset ==
    /\ pid_controller' = PIDReset(pid_controller)
    /\ last_call' = [ NoCall EXCEPT !.op = "reset" ]
    /\ updates_since_reset' = 0
    /\ UNCHANGED << sim_log, calls, round_err, window >>

Next ==
    \/ \E m \in Measurements : Update(m)
    \/ Reset

Spec == Init /\ [][Next]_vars

\* ------------------------------------------------------- simulate as a library

MaxSims == 2

SimGains        == { << R(1), Q(1, 2), Q(1, 2) >> }
SimLimits       == { << R(0), R(400) >>, << R(10), R(50) >> }
SimSampleTimes  == { R(1), R(0) }
OmegaNs         == { Q(1, 2), R(0) }
SimulationTimes == { R(2) }
Disturbances    == { R(10) }
NoiseStds       == { R(0), R(1) }
ModelTypes      == { "second_order", "first_order", "third_order" }

\* np.random.normal(0, noise_std): 0 when noise_std = 0, else some sample
NoiseSamples(noise_std) ==
    IF RIsZero(noise_std) THEN { R(0) } ELSE { RNeg(noise_std), noise_std }

\* the noise sequences simulate can draw for its num_steps iterations
NoiseSeqs(p, simulation_time, noise_std) ==
    IF RIsZero(p.sample_time) \/ NumSteps(p, simulation_time) <= 0
    THEN { << >> }
    ELSE [ 1 .. NumSteps(p, simulation_time) -> NoiseSamples(noise_std) ]

InitSim ==
    /\ \E g \in SimGains, lim \in SimLimits, st \in SimSampleTimes,
          w \in OmegaNs :
          pid_controller =
              PIDInit(g[1], g[2], g[3], R(100), lim, st, w, Q(1, 2), R(0))
    /\ last_call = NoCall
    /\ updates_since_reset = 0
    /\ sim_log = << >>
    /\ calls = 0
    /\ round_err = 0
    /\ window = NoWindow

\* a caller calls simulate(simulation_time, 60.0, 0.0, disturbance, noise_std,
\* model_type)
Simulate(simulation_time, disturbance, noise_std, model_type) ==
    /\ Len(sim_log) < MaxSims
    /\ \E noise \in NoiseSeqs(pid_controller, simulation_time, noise_std) :
         LET a == [ simulation_time |-> simulation_time,
                    initial_value |-> R(60), initial_velocity |-> R(0),
                    disturbance |-> disturbance, noise_std |-> noise_std,
                    noise |-> noise, model_type |-> model_type ]
         IN  \E r \in { PIDSimulate(pid_controller, a) } :
             /\ pid_controller' = r.pid
             /\ last_call' = [ NoCall EXCEPT !.op = "simulate",
                                             !.raised = r.raised,
                                             !.updates = r.updates ]
             /\ sim_log' = Append(sim_log,
                                  [ a |-> a, raised |-> r.raised,
                                    time_steps |-> r.time_steps,
                                    output_values |-> r.output_values,
                                    raw_values |-> r.raw_values ])
             /\ updates_since_reset' = updates_since_reset + r.updates
    /\ UNCHANGED << calls, round_err, window >>

NextSim ==
    \/ \E t \in SimulationTimes, d \in Disturbances, n \in NoiseStds,
          mt \in ModelTypes : Simulate(t, d, n, mt)
    \/ Reset

SpecSim == InitSim /\ [][NextSim]_vars

\* --------------------------------------------------------- integral wind-up

\* update(0) repeated on a regulator with kp=1, ki=0.1, kd=0, setpoint=200,
\* limits (0, 400) and sample_time=0.01.  0.2 has no binary representation:
\* each += of line 74 rounds, so the stored sum is the exact one plus an
\* error of either sign.  Ulp stands for one unit of that error and round_err
\* for the units accumulated, at most MaxRoundErr.
MaxWindupCalls == 2003
MaxRoundErr    == 1
Ulp            == Q(1, 1000)

InitWindup ==
    /\ pid_controller =
           PIDReset(PIDInit(R(1), Q(1, 10), R(0), R(200), << R(0), R(400) >>,
                            Q(1, 100), R(1), Q(7, 10), R(0)))
    /\ last_call = [ NoCall EXCEPT !.op = "reset" ]
    /\ updates_since_reset = 0
    /\ sim_log = << >>
    /\ calls = 0
    /\ round_err = 0
    /\ window = NoWindow

\* update(0), the accumulation rounded by e units
WindupUpdate(e) ==
    /\ calls < MaxWindupCalls
    /\ Abs(round_err + e) <= MaxRoundErr
    /\ \E u \in { PIDUpdate(pid_controller, R(0), RMul(R(e), Ulp)) } :
           /\ pid_controller' = u.pid
           /\ last_call' = [ op |-> "update", raised |-> u.raised,
                             output |-> u.output,
                             derivative_term |-> u.derivative_term,
                             first |-> (updates_since_reset = 0),
                             updates |-> 1 ]
           /\ round_err' = IF u.pid.integral = u.pid.output_limits[2]
                           THEN 0 ELSE round_err + e
    /\ updates_since_reset' = updates_since_reset + 1
    /\ calls' = calls + 1
    /\ UNCHANGED << sim_log, window >>

NextWindup == \E e \in { -1, 0, 1 } : WindupUpdate(e)

SpecWindup == InitWindup /\ [][NextWindup]_vars

\* the integral is 0.2 * calls up to the accumulated rounding error
NearRamp ==
    RLe(RAbs(RSub(pid_controller.integral, RMul(Q(1, 5), R(calls)))),
        RMul(R(MaxRoundErr), Ulp))

\* C3 as stated: the integral grows by 0.2 per call (up to rounding), equals
\* 400 after 2000 calls and then stays at 400, and is never above 400.
C3_Original ==
    /\ RLe(pid_controller.integral, R(400))
    /\ calls < 2000 => NearRamp
    /\ calls >= 2000 => pid_controller.integral = R(400)

\* C3 amended: the integral grows by 0.2 per call up to floating-point
\* rounding and stays below 400 for the first 1999 calls, equals 400 after at
\* most 2001 calls (call 2000 can leave it just below 400) and then stays at
\* 400, and is never above 400.
C3_AntiWindup ==
    /\ RLe(pid_controller.integral, R(400))
    /\ calls < 2000 => (NearRamp /\ RLt(pid_controller.integral, R(400)))
    /\ calls = 2000 => (NearRamp \/ pid_controller.integral = R(400))
    /\ calls >= 2001 => pid_controller.integral = R(400)

\* saturated for good: at 400 two calls after reaching it
C3_Witness ==
    /\ calls = 2003
    /\ last_call.op = "update"
    /\ pid_controller.integral = R(400)
    /\ pid_controller.last_output = R(400)

\* ------------------------------------------------ metrics of a given series

MaxLen == 3

\* sample values around the levels the metrics test, for setpoints 100 and 50
SeriesValues    == { R(0), R(45), R(49), R(90), R(98), R(100), R(103) }
MetricSetpoints == { R(100), R(50) }

\* the time stamps of n samples: step * sample_time (line 139)
TimeSteps(n, sample_time) == [ i \in 1 .. n |-> RMul(R(i - 1), sample_time) ]

InitMetrics ==
    /\ \E sp \in MetricSetpoints :
          pid_controller =
              PIDInit(R(1), Q(1, 10), Q(1, 20), sp, << R(0), R(400) >>,
                      Q(1, 100), R(1), Q(7, 10), R(0))
    /\ \E n \in 0 .. MaxLen : \E output \in [ 1 .. n -> SeriesValues ] :
          window = [ is_running |-> FALSE,
                     time |-> TimeSteps(n, Q(1, 100)), output |-> output,
                     metrics |-> NoMetrics, measured |-> FALSE ]
    /\ last_call = NoCall
    /\ updates_since_reset = 0
    /\ sim_log = << >>
    /\ calls = 0
    /\ round_err = 0

\* update_metrics(time, output) on the series at hand
UpdateMetrics ==
    /\ ~window.measured
    /\ window' = [ window EXCEPT
                     !.metrics = Metrics(window.time, window.output,
                                         pid_controller.setpoint),
                     !.measured = TRUE ]
    /\ UNCHANGED << pid_controller, last_call, updates_since_reset, sim_log,
                    calls, round_err >>

NextMetrics == UpdateMetrics

SpecMetrics == InitMetrics /\ [][NextMetrics]_vars

\* C9: for a non-empty series, settlingTime is the time stamp of the smallest
\* index from which every sample to the end is within 2% of the setpoint, and
\* is absent (not zero) when there is none, as when the last sample is out of
\* the band.
C9_SettlingTime ==
    (window.measured /\ window.output # << >>) =>
        LET n   == Len(window.output)
            sp  == pid_controller.setpoint
            In(j) == /\ RLe(RMul(Q(49, 50), sp), window.output[j])
                     /\ RLe(window.output[j], RMul(Q(51, 50), sp))
            Stays(i) == \A j \in i .. n : In(j)
        IN  /\ (~In(n)) => window.metrics.settling_time = None
            /\ \A i \in 1 .. n :
                 (Stays(i) /\ (i = 1 \/ ~In(i - 1)))
                     => window.metrics.settling_time = window.time[i]

\* a series that leaves the band after entering it and settles at index 3
C9_Witness ==
    /\ window.measured
    /\ Len(window.output) = 3
    /\ pid_controller.setpoint = R(100)
    /\ window.output = << R(100), R(103), R(98) >>
    /\ window.metrics.settling_time = Q(1, 50)

\* C10: for a non-empty series, riseTime is the time stamp of the first
\* sample >= 0.9 * setpoint and absent when there is none; a series constant
\* at the setpoint gives riseTime = settlingTime = first time stamp,
\* overshoot = 0 and steadyStateError = 0.
C10_RiseTime ==
    (window.measured /\ window.output # << >>) =>
        LET n   == Len(window.output)
            sp  == pid_controller.setpoint
            m   == window.metrics
            Up(j) == RLe(RMul(Q(9, 10), sp), window.output[j])
        IN  /\ (\A j \in 1 .. n : ~Up(j)) => m.rise_time = None
            /\ \A i \in 1 .. n :
                 (Up(i) /\ \A j \in 1 .. i - 1 : ~Up(j))
                     => m.rise_time = window.time[i]
            /\ (\A j \in 1 .. n : window.output[j] = sp)
                 => /\ m.rise_time = window.time[1]
                    /\ m.settling_time = window.time[1]
                    /\ m.overshoot = R(0)
                    /\ m.steady_state_error = R(0)

\* a series that first touches exactly 90% of the setpoint at its last sample
C10_Witness ==
    /\ window.measured
    /\ pid_controller.setpoint = R(100)
    /\ window.output = << R(0), R(49), R(90) >>
    /\ window.metrics.rise_time = Q(1, 50)
    /\ window.metrics.settling_time = None

\* ----------------------------------------------------------- DarkModeWindow

\* The window builds its regulator with sample_time = 0.01 and previews
\* 10.0 s, 1000 samples a run.  The model keeps the 10.0 s and takes
\* StepsPerRun samples a run, so sample_time = 10 / StepsPerRun here.
StepsPerRun == 4
MaxTicks    == 3

SimulationTime   == R(10)
WindowSampleTime == Q(10, StepsPerRun)

\* slider positions the user can drag to (integers; the value is position /
\* scale) and the entries of the model combo box
SliderChoices ==
    [ slider_kp            |-> { 100, 200 },
      slider_ki            |-> { 100 },
      slider_kd            |-> { 5 },
      slider_omega_n       |-> { 100 },
      slider_damping_ratio |-> { 700 },
      slider_setpoint      |-> { 200 },
      slider_disturbance   |-> { 0, 1000 },
      slider_noise         |-> { 0 } ]
ComboItems == { "Second Order", "First Order" }

\* lines 428 and 492
ModelTypeOf(w) ==
    IF w.model_combo = "Second Order" THEN "second_order" ELSE "first_order"

\* lines 526-527: max(0, min(val, 400)) on every sample
ClampSeries(output) ==
    [ i \in DOMAIN output |-> RMax(R(0), RMin(output[i], R(400))) ]

\* update_graph, noise being the samples its simulate call draws: the
\* regulator takes the slider values, is reset and runs the batch; the
\* metrics and the plotted line are those of the batch.  simulate cannot
\* raise here: sample_time and omega_n are positive, the model is one of two.
UpdateGraph(p, w, noise) ==
    LET cfg == [ p EXCEPT !.kp = Q(w.slider_kp, 100),
                          !.ki = Q(w.slider_ki, 1000),
                          !.kd = Q(w.slider_kd, 100),
                          !.setpoint = R(w.slider_setpoint),
                          !.omega_n = Q(w.slider_omega_n, 100),
                          !.damping_ratio = Q(w.slider_damping_ratio, 1000) ]
        a   == [ simulation_time |-> SimulationTime,
                 initial_value |-> R(60), initial_velocity |-> R(0),
                 disturbance |-> Q(w.slider_disturbance, 100),
                 noise_std |-> Q(w.slider_noise, 1000),
                 noise |-> noise, model_type |-> ModelTypeOf(w) ]
    IN  CHOOSE g \in
          { [ pid |-> r.pid,
              window |-> [ w EXCEPT
                  !.line_output = << r.time_steps, ClampSeries(r.output_values) >>,
                  !.metrics = Metrics(r.time_steps, ClampSeries(r.output_values),
                                      cfg.setpoint) ] ] :
            r \in { PIDSimulate(PIDReset(cfg), a) } } : TRUE

\* the noise samples a batch run can draw
BatchNoise(w) ==
    [ 1 .. StepsPerRun -> NoiseSamples(Q(w.slider_noise, 1000)) ]

\* lines 44-48: the regulator the window constructs
WindowPID ==
    PIDInit(R(1), Q(1, 10), Q(1, 20), R(200), << R(0), R(400) >>,
            WindowSampleTime, R(1), Q(7, 10), R(0))

\* DarkModeWindow.__init__ before its update_graph() call of line 81: the
\* sliders at the regulator's values, nothing drawn, no current_value or
\* velocity attribute (None), the fields of lines 84-90
WindowFields ==
    [ slider_kp |-> 100, slider_ki |-> 100, slider_kd |-> 5,
      slider_omega_n |-> 100, slider_damping_ratio |-> 700,
      slider_setpoint |-> 200, slider_disturbance |-> 0, slider_noise |-> 0,
      model_combo |-> "Second Order",
      is_running |-> FALSE, timer_active |-> FALSE,
      time_data |-> << >>, output_data |-> << >>,
      current_value |-> None, velocity |-> None,
      line_output |-> << << >>, << >> >>, metrics |-> NoMetrics,
      changed_since_tick |-> FALSE ]

InitWindow ==
    /\ \E g \in { UpdateGraph(WindowPID, WindowFields,
                              [ i \in 1 .. StepsPerRun |-> R(0) ]) } :
          /\ pid_controller = g.pid
          /\ window = g.window
    /\ last_call = [ NoCall EXCEPT !.op = "update_graph",
                                   !.updates = StepsPerRun ]
    /\ updates_since_reset = StepsPerRun
    /\ sim_log = << >>
    /\ calls = 0
    /\ round_err = 0

\* start_simulation (Start button); pressed while running it does nothing
StartSimulation ==
    /\ ~window.is_running
    /\ window' = [ window EXCEPT !.timer_active = TRUE, !.is_running = TRUE ]
    /\ UNCHANGED << pid_controller, last_call, updates_since_reset, sim_log,
                    calls, round_err >>

\* a pause that stops the timer and leaves is_running set
PauseKeepsRunning ==
    /\ window.is_running
    /\ window' = [ window EXCEPT !.timer_active = FALSE ]
    /\ UNCHANGED << pid_controller, last_call, updates_since_reset, sim_log,
                    calls, round_err >>

\* pause_simulation (Pause button); pressed while paused it does nothing
PauseSimulation ==
    /\ window.is_running
    /\ window' = [ window EXCEPT !.timer_active = FALSE, !.is_running = FALSE ]
    /\ UNCHANGED << pid_controller, last_call, updates_since_reset, sim_log,
                    calls, round_err >>

\* update_graph run at the end of handler op, on the window w it left
GraphUpdate(w, op) ==
    \E noise \in BatchNoise(w) :
      \E g \in { UpdateGraph(pid_controller, w, noise) } :
        /\ pid_controller' = g.pid
        /\ window' = g.window
        /\ last_call' = [ NoCall EXCEPT !.op = op, !.updates = StepsPerRun ]
        /\ updates_since_reset' = StepsPerRun
        /\ UNCHANGED << sim_log, calls, round_err >>

\* a valueChanged / currentIndexChanged signal: update_graph
GraphChanged(w) == GraphUpdate(w, "update_graph")

\* the user drags a slider to another position
SetSlider(name, v) ==
    /\ v # window[name]
    /\ GraphChanged([ window EXCEPT
                        ![name] = v,
                        !.changed_since_tick = (window.time_data # << >>) ])

\* the user picks the other process model
SetModel(text) ==
    /\ text # window.model_combo
    /\ GraphChanged([ window EXCEPT
                        !.model_combo = text,
                        !.changed_since_tick = (window.time_data # << >>) ])

\* reset_simulation (Reset button): the regulator reset, the run's data and
\* process state dropped, the timer stopped, the sliders put back (gains,
\* setpoint, omega_n and damping to the regulator's own values, which they
\* already show; disturbance and noise to 0), then update_graph().  A slider
\* that moves runs update_graph as well; the call of line 411 comes last and
\* overwrites what those calls left.
ResetSimulation ==
    GraphUpdate([ window EXCEPT
                    !.time_data = << >>, !.output_data = << >>,
                    !.is_running = FALSE, !.timer_active = FALSE,
                    !.current_value = None, !.velocity = None,
                    !.slider_disturbance = 0, !.slider_noise = 0,
                    !.changed_since_tick = FALSE ],
                "reset_simulation")

\* lines 418-463 given the noise sample drawn: the regulator and the window
\* after the tick, and what update returned
RealTimeStep(p, w, noise) ==
    LET cv0 == IF w.current_value = None THEN R(60) ELSE w.current_value
        v0  == IF w.velocity = None THEN R(0) ELSE w.velocity
        disturbance == Q(w.slider_disturbance, 100)
    IN  CHOOSE t \in
          { LET disturbance_value ==
                    IF RGe(RMul(R(Len(w.time_data)), u.pid.sample_time), R(5))
                    THEN disturbance ELSE R(0)
                moved == IF ModelTypeOf(w) = "second_order"
                         THEN SecondOrderStep(u.pid, u.output, cv0, v0)
                         ELSE FirstOrderStep(u.pid, u.output, cv0, v0)
                cv == RMax(R(0), RMin(RAdd(moved[1],
                                           RMul(disturbance_value,
                                                u.pid.sample_time)), R(400)))
                current_time == RMul(R(Len(w.time_data)), u.pid.sample_time)
            IN  [ pid |-> u.pid, output |-> u.output,
                  derivative_term |-> u.derivative_term,
                  window |-> [ w EXCEPT
                      !.current_value = cv, !.velocity = moved[2],
                      !.time_data = Append(w.time_data, current_time),
                      !.output_data = Append(w.output_data, cv),
                      !.line_output = << Append(w.time_data, current_time),
                                         Append(w.output_data, cv) >> ] ] :
            u \in { PIDUpdate(p, RAdd(cv0, noise), R(0)) } } : TRUE

\* update_real_time: a timeout of the timer
UpdateRealTime ==
    /\ window.timer_active
    /\ Len(window.time_data) < MaxTicks
    /\ \E noise \in NoiseSamples(Q(window.slider_noise, 1000)) :
        \E t \in { RealTimeStep(pid_controller, window, noise) } :
          /\ pid_controller' = t.pid
          /\ window' = t.window
          /\ last_call' = [ op |-> "update_real_time", raised |-> "",
                            output |-> t.output,
                            derivative_term |-> t.derivative_term,
                            first |-> (updates_since_reset = 0),
                            updates |-> 1 ]
    /\ updates_since_reset' = updates_since_reset + 1
    /\ UNCHANGED << sim_log, calls, round_err >>

\* lines 135-137, 164 and 233-235: the range of each slider's positions
SliderRange ==
    [ slider_kp            |-> << 0, 1000 >>,
      slider_ki            |-> << 0, 10000 >>,
      slider_kd            |-> << 0, 1000 >>,
      slider_omega_n       |-> << 10, 1000 >>,
      slider_damping_ratio |-> << 0, 2000 >>,
      slider_setpoint      |-> << 60, 400 >>,
      slider_disturbance   |-> << -5000, 5000 >>,
      slider_noise         |-> << 0, 10000 >> ]

\* QSlider.setValue: the position kept within the slider's range
SliderPos(name, v) ==
    IF v < SliderRange[name][1] THEN SliderRange[name][1]
    ELSE IF v > SliderRange[name][2] THEN SliderRange[name][2]
    ELSE v

\* lines 483-500: update_graph assigns the regulator's parameters from the
\* sliders
FromSliders(p, w) ==
    [ p EXCEPT !.kp = Q(w.slider_kp, 100),
               !.ki = Q(w.slider_ki, 1000),
               !.kd = Q(w.slider_kd, 100),
               !.setpoint = R(w.slider_setpoint),
               !.omega_n = Q(w.slider_omega_n, 100),
               !.damping_ratio = Q(w.slider_damping_ratio, 1000) ]

\* slider.setValue(v) inside a handler, pw = [pid, window]: a position that
\* changes emits valueChanged and runs update_graph, which assigns the
\* regulator's parameters from all the sliders.  The reset and batch run of
\* that call are redone by the update_graph call that ends the handler.
SetValue(pw, name, v) ==
    IF SliderPos(name, v) = pw.window[name] THEN pw
    ELSE CHOOSE n \in
           { [ pid |-> FromSliders(pw.pid, w), window |-> w ] :
             w \in { [ pw.window EXCEPT ![name] = SliderPos(name, v) ] } } : TRUE

\* config.get(key, default): None stands for a key the file does not hold
ConfigGet(value, default) == IF value = None THEN default ELSE value

\* lines 600-607: the sliders load_config sets, in its order
LoadSliders ==
    << "slider_kp", "slider_ki", "slider_kd", "slider_setpoint",
       "slider_omega_n", "slider_damping_ratio", "slider_disturbance",
       "slider_noise" >>

\* lines 600-607: the position load_config asks for, read from the regulator
\* as it is when the line runs
LoadValue(pw, name, config) ==
    CASE name = "slider_kp"            -> RInt(RMul(pw.pid.kp, R(100)))
      [] name = "slider_ki"            -> RInt(RMul(pw.pid.ki, R(1000)))
      [] name = "slider_kd"            -> RInt(RMul(pw.pid.kd, R(100)))
      [] name = "slider_setpoint"      -> RInt(pw.pid.setpoint)
      [] name = "slider_omega_n"       -> RInt(RMul(pw.pid.omega_n, R(100)))
      [] name = "slider_damping_ratio" ->
             RInt(RMul(pw.pid.damping_ratio, R(1000)))
      [] name = "slider_disturbance"   ->
             RInt(RMul(ConfigGet(config.disturbance, R(0)), R(100)))
      [] name = "slider_noise"         ->
             RInt(RMul(ConfigGet(config.noise_std, R(0)), R(1000)))

\* lines 600-607 from the i-th slider on
RECURSIVE LoadSetSliders(_, _, _)
LoadSetSliders(pw, i, config) ==
    IF i > Len(LoadSliders) THEN pw
    ELSE CHOOSE r \in
           { LoadSetSliders(n, i + 1, config) :
             n \in { SetValue(pw, LoadSliders[i],
                              LoadValue(pw, LoadSliders[i], config)) } } : TRUE

\* lines 589-611: the regulator and the window before the update_graph call
\* of line 614.  findText gives -1 for a text that is not an item of the
\* combo box, and then the selection is left as it is.
LoadApply(p, w, config) ==
    LET p0 == [ p EXCEPT !.kp = ConfigGet(config.kp, p.kp),
                         !.ki = ConfigGet(config.ki, p.ki),
                         !.kd = ConfigGet(config.kd, p.kd),
                         !.setpoint = ConfigGet(config.setpoint, p.setpoint),
                         !.omega_n = ConfigGet(config.omega_n, p.omega_n),
                         !.damping_ratio =
                             ConfigGet(config.damping_ratio, p.damping_ratio) ]
        model_type == ConfigGet(config.model_type, << "Second Order" >>)[1]
    IN  CHOOSE r \in
          { IF model_type \in ComboItems /\ model_type # pw.window.model_combo
            THEN [ pid |-> pw.pid,
                   window |-> [ pw.window EXCEPT !.model_combo = model_type ] ]
            ELSE pw :
            pw \in { LoadSetSliders([ pid |-> p0, window |-> w ], 1, config) } }
          : TRUE

\* a configuration file without any key
NoKeys ==
    [ kp |-> None, ki |-> None, kd |-> None, setpoint |-> None,
      omega_n |-> None, damping_ratio |-> None, disturbance |-> None,
      noise_std |-> None, model_type |-> None ]

\* configuration files the user can pick: any key can be missing; the text
\* of model_type is held in a one-element tuple
Configs ==
    { NoKeys,
      [ NoKeys EXCEPT !.model_type = << "First Order" >> ],
      [ NoKeys EXCEPT !.model_type = << "Third Order" >> ],
      [ NoKeys EXCEPT !.kp = R(2), !.disturbance = R(10),
                      !.model_type = << "Second Order" >> ] }

\* load_config with a file that parses to config
LoadConfig(config) ==
    \E pw \in { LoadApply(pid_controller,
                          [ window EXCEPT !.changed_since_tick =
                                              (window.time_data # << >>) ],
                          config) } :
      \E noise \in BatchNoise(pw.window) :
        \E g \in { UpdateGraph(pw.pid, pw.window, noise) } :
          /\ pid_controller' = g.pid
          /\ window' = g.window
          /\ last_call' = [ op |-> "load_config", raised |-> "",
                            output |-> None, derivative_term |-> None,
                            first |-> FALSE, updates |-> StepsPerRun,
                            model_type |-> config.model_type ]
          /\ updates_since_reset' = StepsPerRun
          /\ UNCHANGED << sim_log, calls, round_err >>

NextWindow ==
    \/ StartSimulation
    \/ PauseSimulation
    \/ ResetSimulation
    \/ UpdateRealTime
    \/ \E name \in DOMAIN SliderChoices :
         \E v \in SliderChoices[name] : SetSlider(name, v)
    \/ \E text \in ComboItems : SetModel(text)
    \/ \E config \in Configs : LoadConfig(config)

SpecWindow == InitWindow /\ [][NextWindow]_vars

\* C12: loading a configuration whose model_type is not a recognized model
\* leaves the selected process model at the default, Second Order, whatever
\* was selected before the load.
C12_UnknownModelFallsBack ==
    ( /\ last_call.op = "load_config"
      /\ last_call.model_type # None
      /\ last_call.model_type[1] \notin ComboItems )
    => window.model_combo = "Second Order"

\* C16: after reset_simulation the regulator is in its reset state, the
\* real-time process state and the recorded data are cleared, and the tick
\* that follows Start is a first step: it starts from 60, with no derivative
\* term and an integral accumulated from 0.
C16_ResetLeavesFirstStep ==
    last_call.op = "reset_simulation" =>
        /\ pid_controller.integral = R(0)
        /\ pid_controller.last_input = None
        /\ pid_controller.last_output = R(0)
        /\ window.time_data = << >> /\ window.output_data = << >>
        /\ window.current_value = None /\ window.velocity = None
        /\ LET t == RealTimeStep(pid_controller, window, R(0))
           IN  /\ t.derivative_term = R(0)
               /\ t.pid.integral
                  = IntegralStep(PIDReset(pid_controller), R(60), R(0))

\* C17: the batch preview and the real-time loop own independent regulator
\* states: once ticks have run, a parameter-change callback (update_graph)
\* leaves the integral and the last input as the previous tick left them,
\* for the next tick to see.
C17_IndependentRegulatorState ==
    [][ ( /\ window.time_data # << >>
          /\ last_call'.op = "update_graph" ) =>
            /\ pid_controller'.integral = pid_controller.integral
            /\ pid_controller'.last_input = pid_controller.last_input
      ]_vars

\* C18: is_running is true exactly when the timer is active; the recorded
\* samples are as many values as times and the k-th since the last Reset
\* (k from 0) carries time k * sample_time; the recorded data change only by
\* a tick taken while is_running, which appends one sample, or by Reset,
\* which clears them, so Pause and Start neither drop, duplicate nor re-time
\* a sample.
C18_RunStateAndSampleTimes ==
    /\ [](/\ window.is_running <=> window.timer_active
          /\ Len(window.output_data) = Len(window.time_data)
          /\ \A k \in DOMAIN window.time_data :
                 window.time_data[k]
                 = RMul(R(k - 1), pid_controller.sample_time))
    /\ [][ ( \/ window'.time_data # window.time_data
             \/ window'.output_data # window.output_data ) =>
               \/ /\ window.is_running
                  /\ last_call'.op = "update_real_time"
                  /\ Len(window'.time_data) = Len(window.time_data) + 1
                  /\ SubSeq(window'.time_data, 1, Len(window.time_data))
                     = window.time_data
                  /\ SubSeq(window'.output_data, 1, Len(window.output_data))
                     = window.output_data
               \/ /\ last_call'.op = "reset_simulation"
                  /\ window'.time_data = << >>
                  /\ window'.output_data = << >>
         ]_vars

\* paused after two ticks, the second tick taken after a first pause or not
C18_Witness ==
    /\ ~window.is_running /\ ~window.timer_active
    /\ last_call.op = "update_real_time"
    /\ Len(window.time_data) = 2
    /\ window.time_data[2] = pid_controller.sample_time

\* the series update_graph gets for the window's present settings, no noise
BatchOutput ==
    UpdateGraph(pid_controller, window,
                [ i \in 1 .. StepsPerRun |-> R(0) ]).window.line_output[2]

\* C5: for the same parameters, disturbance and noise, the process values the
\* real-time ticks append after Start equal, sample by sample, the series of
\* the batch simulate call that update_graph runs.
C5_RealTimeIsBatchUnrolled ==
    (~window.changed_since_tick /\ window.slider_noise = 0) =>
        \A k \in 1 .. Len(window.output_data) :
            k <= StepsPerRun => window.output_data[k] = BatchOutput[k]

\* --------------------------------------------------- claims on update / reset

Lo == pid_controller.output_limits[1]
Hi == pid_controller.output_limits[2]
Within(x) == RLe(Lo, x) /\ RLe(x, Hi)

\* C1: for limits with outputLow <= outputHigh, every value update returns
\* and the integral stored after every update call lie in
\* [outputLow, outputHigh], for any measurements and gains.
C1_ClampInvariant ==
    (RLe(Lo, Hi) /\ last_call.op = "update") =>
        /\ Within(pid_controller.integral)
        /\ last_call.raised = "" => Within(last_call.output)

\* an update whose integral and output were both cut at the lower limit
C1_Witness ==
    /\ last_call.op = "update" /\ last_call.raised = ""
    /\ RLt(R(0), Lo) /\ RLt(Lo, Hi)
    /\ pid_controller.integral = Lo
    /\ last_call.output = Lo
    /\ calls >= 2

\* C2: the first update after construction or after reset() contributes a
\* derivative term of exactly 0, for every measurement, kd and
\* derivative_filter, whatever calls preceded the reset.
C2_NoDerivativeKick ==
    (last_call.op = "update" /\ last_call.first) =>
        /\ last_call.raised = ""
        /\ last_call.derivative_term = R(0)

\* a first update after a reset that earlier updates preceded, with kd # 0,
\* a filter, and a measurement other than the one before the reset
C2_Witness ==
    /\ last_call.op = "update" /\ last_call.first
    /\ calls >= 3
    /\ ~RIsZero(pid_controller.kd)
    /\ RGt(pid_controller.derivative_filter, R(0))
    /\ pid_controller.last_input = R(250)

\* C6: after reset() integral = 0, lastMeasurement is unset,
\* lastFilteredDerivative = 0 and lastOutput = 0, whatever update calls
\* preceded it.
C6_ResetState ==
    last_call.op = "reset" =>
        /\ pid_controller.integral = R(0)
        /\ pid_controller.last_input = None
        /\ pid_controller.last_derivative = R(0)
        /\ pid_controller.last_output = R(0)

\* C13 as stated: in every reachable state with outputLow <= outputHigh,
\* integral and lastOutput are within the limits, and lastMeasurement is
\* unset exactly when no update was called since construction or reset.
C13_Original ==
    RLe(Lo, Hi) =>
        /\ Within(pid_controller.integral)
        /\ Within(pid_controller.last_output)
        /\ (pid_controller.last_input = None) <=> (updates_since_reset = 0)

\* C13 amended: with outputLow <= outputHigh, integral and lastOutput are
\* within the limits in every state where update was called since
\* construction or the last reset, and are both 0 right after construction
\* and right after reset (inside the limits only when they include 0);
\* lastMeasurement is unset exactly when no update was called since.
C13_StateInvariant ==
    RLe(Lo, Hi) =>
        /\ (updates_since_reset > 0) =>
               /\ Within(pid_controller.integral)
               /\ Within(pid_controller.last_output)
        /\ (updates_since_reset = 0) =>
               /\ pid_controller.integral = R(0)
               /\ pid_controller.last_output = R(0)
        /\ (pid_controller.last_input = None) <=> (updates_since_reset = 0)

\* limits that exclude 0: an update that ended at the upper limit after a
\* reset that had put the integral and the output back to 0
C13_Witness ==
    /\ RLt(R(0), Lo) /\ RLt(Lo, Hi)
    /\ last_call.op = "update" /\ last_call.first /\ calls >= 2
    /\ pid_controller.last_output = Hi
    /\ pid_controller.last_input = R(0)

\* The reference step of the specification, on a regulator state r whose
\* last_derivative is 0 after construction and reset.
RefClamp(x, low, high) == RMax(low, RMin(x, high))

RefReset(r) ==
    [ r EXCEPT !.integral = R(0), !.last_input = None,
               !.last_derivative = R(0), !.last_output = R(0) ]

RefUpdate(r, measurement) ==
    LET error    == RSub(r.setpoint, measurement)
        integral == RefClamp(RAdd(r.integral,
                                  RMul(RMul(r.ki, error), r.sample_time)),
                             r.output_limits[1], r.output_limits[2])
        raw      == IF r.last_input = None THEN R(0)
                    ELSE RNeg(RDiv(RSub(measurement, r.last_input),
                                   r.sample_time))
        filtered == IF RGt(r.derivative_filter, R(0))
                    THEN RAdd(RMul(r.derivative_filter, raw),
                              RMul(RSub(R(1), r.derivative_filter),
                                   r.last_derivative))
                    ELSE raw
        output   == RefClamp(RAdd(RAdd(RMul(r.kp, error), integral),
                                  RMul(r.kd, filtered)),
                             r.output_limits[1], r.output_limits[2])
    IN  [ r EXCEPT !.integral = integral, !.last_derivative = filtered,
                   !.last_input = measurement, !.last_output = output ]

\* the reference state that goes with the code's state p after k update
\* calls since construction or reset
RefOf(p, k) == IF k = 0 THEN [ p EXCEPT !.last_derivative = R(0) ] ELSE p

\* C14: over every sequence of reset and update calls (limits low <= high)
\* the value update returns is the one the reference step returns from the
\* reference state, the two states stay in step across update and reset,
\* and update never reads an unassigned filtered derivative (AttributeError)
\* nor, on the first call after a reset, the one stored before it.
C14_MatchesReference ==
    [][ /\ last_call'.op = "update" => last_call'.raised # "AttributeError"
        /\ ( /\ RLe(Lo, Hi)
             /\ last_call'.op = "update"
             /\ last_call'.raised = "" ) =>
               LET m == pid_controller'.last_input
                   r == RefUpdate(RefOf(pid_controller, updates_since_reset), m)
               IN  /\ last_call'.output = r.last_output
                   /\ RefOf(pid_controller', updates_since_reset') = r
                   /\ last_call'.first =>
                        \A d \in { Undefined, R(1), R(-7) } :
                            PIDUpdate([ pid_controller EXCEPT
                                          !.last_derivative = d ], m, R(0))
                            = PIDUpdate(pid_controller, m, R(0))
        /\ last_call'.op = "reset" =>
               RefOf(pid_controller', updates_since_reset')
               = RefReset(RefOf(pid_controller, updates_since_reset))
      ]_vars

\* a filtered, non-zero derivative computed on the second update after a
\* reset that followed an earlier update
C14_Witness ==
    /\ last_call.op = "update" /\ last_call.raised = "" /\ ~last_call.first
    /\ calls >= 3 /\ updates_since_reset = 2
    /\ RLe(Lo, Hi)
    /\ RGt(pid_controller.derivative_filter, R(0))
    /\ ~RIsZero(pid_controller.kd)
    /\ ~RIsZero(last_call.derivative_term)

\* C7: a regulator with sample_time <= 0 or outputLow > outputHigh is
\* rejected at construction, so none reaches a state in which update has run.
C7_RejectedAtConstruction ==
    last_call.op = "update" =>
        /\ RGt(pid_controller.sample_time, R(0))
        /\ RLe(Lo, Hi)

\* ------------------------------------------------------- claims on simulate

\* C4: with noise_std = 0, two simulate calls with identical configuration
\* and arguments return identical series, also two successive calls on the
\* same regulator.
C4_Determinism ==
    \A i, j \in DOMAIN sim_log :
        ( /\ sim_log[i].a = sim_log[j].a
          /\ RIsZero(sim_log[i].a.noise_std)
          /\ sim_log[i].raised = "" /\ sim_log[j].raised = "" )
        => /\ sim_log[i].time_steps = sim_log[j].time_steps
           /\ sim_log[i].output_values = sim_log[j].output_values

\* C8: no simulate call raises (unknown model_type, division by zero in
\* tau = 1 / omega_n) after it has called update and changed the regulator.
C8_NeverFailsMidRun ==
    ~( /\ last_call.op = "simulate"
       /\ last_call.raised # ""
       /\ last_call.updates > 0 )

\* floor of the fraction a
Floor(a) == a[1] \div a[2]

\* C11: every simulate call returns, with exactly
\* floor(simulation_time / sample_time) samples, sample i (from 0) at time
\* i * sample_time, and two lists of equal length.
C11_SampleCount ==
    \A i \in DOMAIN sim_log :
        LET e  == sim_log[i]
            st == pid_controller.sample_time
        IN  /\ e.raised = ""
            /\ ~RIsZero(st)
            /\ Len(e.time_steps) = Floor(RDiv(e.a.simulation_time, st))
            /\ Len(e.output_values) = Len(e.time_steps)
            /\ \A k \in DOMAIN e.time_steps :
                   e.time_steps[k] = RMul(R(k - 1), st)

\* C15: every process value simulate records is its value before the clamp
\* cut to the physical limits [0, 400], whatever the regulator's output
\* limits are.
C15_PhysicalLimits ==
    \A i \in DOMAIN sim_log :
        \A k \in DOMAIN sim_log[i].output_values :
            sim_log[i].output_values[k]
            = RMax(R(0), RMin(sim_log[i].raw_values[k], R(400)))

=============================================================================
